---- MODULE Spec2Model ----
(***************************************************************************)
(* Model of the kr notification relay (loggingdylib, general-purpose and   *)
(* restricted variants), its stdout arbiter, the PKCS11 shim's session     *)
(* gate (CK_C_Initialize / CK_C_Finalize / CK_C_OpenSession) and the rest  *)
(* of the shim's function table.                                           *)
(***************************************************************************)
EXTENDS Integers, Sequences, FiniteSets, TLC

(* ------------------------------ bounds --------------------------------- *)
MaxAppends == 2
MaxErr == 2
MaxOut == 2
MaxSessionCalls == 4
MaxGateCalls == 6
FdLimit == 6
MaxCount == 3
MaxShimCalls == 2

(* ----------------------------- alphabet -------------------------------- *)
LF == 10
LineA == <<97, LF>>
LineB == <<98, LF>>
LineEmpty == <<LF>>
Lines == {LineA, LineB, LineEmpty}

VARIABLES
    (* library-load Init of the logging dylib *)
    variant, noStderrEnv, homeDir, loadPc, hostAlive,
    (* notification log file *)
    logExists, log,
    (* relay thread *)
    rpc, fpos, rbuf, buf, printed_messages, stderrOut, diags, nAppends,
    (* stdout arbiter *)
    HAS_RECEIVED_STDOUT, stdoutTarget, pipe, wpc, wbuf, chunk, real_stdout,
    outCount, pipeOpen, sawPipeEnd,
    (* history of the relay run: the appends since the log was last emptied *)
    appendHist, byteWritten, emittedAfterByte,
    (* session gate *)
    sudoUser, gateHome, sshAuthSock, backup, fds, OLD_STDERR_FD,
    next_session_handle, tpc, tflags, tfetched, tsession, trv, gateCalls,
    sessionCalls,
    (* history of the gate run *)
    handed, rejects, last, paired, lastInit,
    (* the last call made through the function table *)
    lastCall,
    (* where each calling thread is in its Initialize/Finalize pair *)
    ppc

relayVars == <<variant, noStderrEnv, homeDir, loadPc, hostAlive, logExists,
               log, rpc, fpos, rbuf, buf, printed_messages, stderrOut, diags,
               nAppends, HAS_RECEIVED_STDOUT, stdoutTarget, pipe, wpc, wbuf, chunk,
               real_stdout, outCount, pipeOpen, sawPipeEnd, appendHist,
               byteWritten, emittedAfterByte>>

gateVars == <<sudoUser, gateHome, sshAuthSock, backup, fds, OLD_STDERR_FD,
              next_session_handle, tpc, tflags, tfetched, tsession, trv,
              gateCalls, sessionCalls, handed, rejects, last, paired, lastInit,
              lastCall, ppc>>

vars == <<relayVars, gateVars>>

(* ------------------------- BufReader::read_line ------------------------ *)
HasLF(s) == \E i \in 1..Len(s) : s[i] = LF

FirstLF(s) == CHOOSE i \in 1..Len(s) : s[i] = LF /\ \A j \in 1..(i-1) : s[j] # LF

Drop(s, n) == SubSeq(s, n + 1, Len(s))

(* bytes of the file behind the descriptor's offset *)
Unread(file, pos) == IF pos < Len(file) THEN Drop(file, pos) ELSE <<>>

(* read_line: bytes through the first line feed, or through end of file;   *)
(* the reader's buffer is used first and refilled from the file when it    *)
(* holds no line feed.  Result: the line, the new buffer, the new offset.  *)
read_line(rb, file, pos) ==
    IF HasLF(rb)
    THEN [line |-> SubSeq(rb, 1, FirstLF(rb)), rbuf |-> Drop(rb, FirstLF(rb)),
          fpos |-> pos]
    ELSE LET avail == rb \o Unread(file, pos)
             npos  == IF pos < Len(file) THEN Len(file) ELSE pos
         IN IF HasLF(avail)
            THEN [line |-> SubSeq(avail, 1, FirstLF(avail)),
                  rbuf |-> Drop(avail, FirstLF(avail)), fpos |-> npos]
            ELSE [line |-> avail, rbuf |-> <<>>, fpos |-> npos]

(* variants of the write test: short lines skipped; no look at the set *)
ShouldPrint_SkipShort(b, printed) == Len(b) > 2 /\ b \notin printed
ShouldPrint_NoDedup(b, printed) == Len(b) > 1

(* the test guarding the write of a line to standard error *)
ShouldPrint(b, printed) == Len(b) > 1 /\ b \notin printed

(* variant: the relay starts reading at the beginning of the file *)
SeekEnd_Start(file) == 0

(* seek(SeekFrom::End(0)) *)
SeekEnd(file) == Len(file)

(* OpenOptions ... .truncate(true): the content after a successful open *)
OpenTruncate(file) == <<>>

(* whether OpenOptions::open finds or makes the file *)
OpenCreates(v) == v = "general"

(* the lines written to standard error by write!(.., "{}", buf) *)
emitted == stderrOut

(* the read errors reported so far *)
errs == Cardinality({i \in 1..Len(diags) : diags[i] = "err"})

(* variant: the log is opened and unwrapped before the thread is spawned *)
OpenThread_Host == "host"

(* the thread on which the restricted variant opens the log and unwraps *)
OpenThread == "relay"

(* a panic ends a spawned thread; unwinding out of an extern "C" entry on  *)
(* the host's own thread takes the process down                            *)
HostSurvivesPanic(thread) == thread # "host"

Tailing == {"read", "check", "act", "sleep10", "sleep250"}

(* KR_NO_STDERR in the environment at load time: not set, set to a value  *)
(* that is valid Unicode, set to bytes that are not                        *)
EnvValues == {"unset", "unicode", "not_unicode"}

(* ------------------------------ initial state -------------------------- *)
RelayIdle ==
    /\ loadPc = "unloaded" /\ hostAlive = TRUE
    /\ rpc = "none" /\ fpos = 0 /\ rbuf = <<>> /\ buf = <<>>
    /\ printed_messages = {} /\ stderrOut = <<>> /\ diags = <<>> /\ nAppends = 0
    /\ HAS_RECEIVED_STDOUT = FALSE /\ stdoutTarget = "real" /\ pipe = <<>>
    /\ wpc = "none" /\ wbuf = <<>> /\ chunk = <<>> /\ real_stdout = <<>>
    /\ outCount = 0 /\ pipeOpen = TRUE /\ sawPipeEnd = FALSE
    /\ appendHist = <<>> /\ byteWritten = FALSE /\ emittedAfterByte = FALSE

RelayInit ==
    /\ variant \in {"general", "restricted"}
    /\ noStderrEnv \in (IF variant = "general" THEN EnvValues ELSE {"unset"})
    /\ homeDir \in BOOLEAN
    /\ logExists \in BOOLEAN
    /\ log \in (IF logExists THEN {<<>>, LineA} ELSE {<<>>})
    /\ RelayIdle

RelayOff ==
    /\ variant = "restricted" /\ noStderrEnv = "unset" /\ homeDir = TRUE
    /\ logExists = FALSE /\ log = <<>>
    /\ RelayIdle

(* ------------------------- library-load Init --------------------------- *)
pipeVars == <<pipeOpen, sawPipeEnd>>

(* variant: the watcher is spawned although pipe() failed *)
start_stdout_detection_SpawnAnyway(pipeOk) ==
    IF pipeOk
    THEN /\ stdoutTarget' = "pipe"
         /\ wpc' = "read_exact"
    ELSE /\ wpc' = "read_exact"
         /\ UNCHANGED stdoutTarget

(* start_stdout_detection: pipe, dup, dup2, spawn the watcher *)
start_stdout_detection(pipeOk) ==
    IF pipeOk
    THEN /\ stdoutTarget' = "pipe"
         /\ wpc' = "read_exact"
    ELSE UNCHANGED <<stdoutTarget, wpc>>

(* env::var: Ok for a variable that is set to valid Unicode, Err for one   *)
(* that is not set and for one whose value is not valid Unicode            *)
env_var(v) == IF v = "unicode" THEN "Ok" ELSE "Err"

(* the two early returns of Init: env::var("KR_NO_STDERR") is Ok, or       *)
(* env::home_dir() is None                                                 *)
InitReturnsEarly(noStderr, home) == env_var(noStderr) = "Ok" \/ ~home

LoadGeneral ==
    /\ variant = "general" /\ loadPc = "unloaded"
    /\ loadPc' = "loaded"
    /\ IF InitReturnsEarly(noStderrEnv, homeDir)
       THEN UNCHANGED <<stdoutTarget, wpc, rpc>>
       ELSE /\ \E pipeOk \in BOOLEAN : start_stdout_detection(pipeOk)
            /\ rpc' = "open"
    /\ UNCHANGED <<variant, noStderrEnv, homeDir, hostAlive, logExists, log,
                   fpos, rbuf, buf, printed_messages, stderrOut, diags,
                   nAppends, HAS_RECEIVED_STDOUT, pipe, wbuf, chunk,
                   real_stdout, outCount, appendHist, byteWritten,
                   emittedAfterByte>>
    /\ UNCHANGED pipeVars
    /\ UNCHANGED gateVars

LoadRestricted ==
    /\ variant = "restricted" /\ loadPc = "unloaded"
    /\ loadPc' = "loaded"
    /\ rpc' = "home"
    /\ UNCHANGED <<variant, noStderrEnv, homeDir, hostAlive, logExists, log,
                   fpos, rbuf, buf, printed_messages, stderrOut, diags,
                   nAppends, HAS_RECEIVED_STDOUT, stdoutTarget, pipe, wpc,
                   wbuf, chunk, real_stdout, outCount, appendHist, byteWritten,
                   emittedAfterByte>>
    /\ UNCHANGED pipeVars
    /\ UNCHANGED gateVars

(* ------------------------------ relay thread --------------------------- *)
arbiterVars == <<HAS_RECEIVED_STDOUT, stdoutTarget, pipe, wpc, wbuf, chunk,
                 real_stdout, outCount, byteWritten, pipeVars>>
envVars == <<variant, noStderrEnv, homeDir, loadPc>>

RelayHome ==
    /\ rpc = "home"
    /\ rpc' = IF homeDir THEN "open" ELSE "exited"
    /\ UNCHANGED <<envVars, hostAlive, logExists, log, fpos, rbuf, buf,
                   printed_messages, stderrOut, diags, nAppends, arbiterVars,
                   appendHist, emittedAfterByte>>
    /\ UNCHANGED gateVars

RelayOpen ==
    /\ rpc = "open"
    /\ \E permitted \in BOOLEAN :
         IF permitted /\ (logExists \/ OpenCreates(variant))
         THEN /\ logExists' = TRUE
              /\ log' = OpenTruncate(log)
              /\ fpos' = 0
              /\ rpc' = "seek"
              /\ appendHist' = <<>>
              /\ UNCHANGED <<diags, hostAlive>>
         ELSE /\ IF variant = "general"
                 THEN /\ diags' = Append(diags, "open")
                      /\ rpc' = "exited"
                      /\ UNCHANGED hostAlive
                 ELSE /\ rpc' = "panicked"
                      /\ hostAlive' = (hostAlive /\ HostSurvivesPanic(OpenThread))
                      /\ UNCHANGED diags
              /\ UNCHANGED <<logExists, log, fpos, appendHist>>
    /\ UNCHANGED <<envVars, rbuf, buf, printed_messages, stderrOut, nAppends,
                   arbiterVars, emittedAfterByte>>
    /\ UNCHANGED gateVars

RelaySeek ==
    /\ rpc = "seek"
    /\ fpos' = SeekEnd(log)
    /\ rpc' = "read"
    /\ UNCHANGED <<envVars, hostAlive, logExists, log, rbuf, buf,
                   printed_messages, stderrOut, diags, nAppends, arbiterVars,
                   appendHist, emittedAfterByte>>
    /\ UNCHANGED gateVars

RelayRead ==
    /\ rpc = "read"
    /\ LET r == read_line(rbuf, log, fpos)
       IN /\ buf' = r.line
          /\ rbuf' = r.rbuf
          /\ fpos' = r.fpos
    /\ rpc' = IF variant = "general" THEN "check" ELSE "act"
    /\ UNCHANGED <<envVars, hostAlive, logExists, log, printed_messages,
                   stderrOut, diags, nAppends, arbiterVars, appendHist, emittedAfterByte>>
    /\ UNCHANGED gateVars

(* variant: a read error ends the thread *)
AfterReadErr_Exit == "exited"

(* the Err arm: the diagnostic, then the 250 ms sleep, then the loop again *)
AfterReadErr == "sleep250"

(* read_line returns Err: the read of the file failed; what the call had   *)
(* already taken from the buffer is gone                                   *)
RelayReadErr ==
    /\ rpc = "read" /\ errs < MaxErr
    /\ ~HasLF(rbuf)
    /\ rbuf' = <<>>
    /\ buf' = <<>>
    /\ diags' = Append(diags, "err")
    /\ rpc' = AfterReadErr
    /\ UNCHANGED <<envVars, hostAlive, logExists, log, fpos, printed_messages,
                   stderrOut,
                   nAppends, arbiterVars, appendHist, emittedAfterByte>>
    /\ UNCHANGED gateVars

(* variant: the relay never looks at the flag *)
CheckExit_Never(flag) == FALSE

(* the load of HAS_RECEIVED_STDOUT after a successful read_line *)
CheckExit(flag) == flag

(* variant: the relay skips the line and goes on tailing *)
AfterFlagSeen_Skip == "sleep10"

(* the return out of the thread's closure when the flag is seen true *)
AfterFlagSeen == "exited"

RelayCheck ==
    /\ rpc = "check"
    /\ rpc' = IF CheckExit(HAS_RECEIVED_STDOUT) THEN AfterFlagSeen ELSE "act"
    /\ buf' = IF CheckExit(HAS_RECEIVED_STDOUT) THEN <<>> ELSE buf
    /\ UNCHANGED <<envVars, hostAlive, logExists, log, fpos, rbuf,
                   printed_messages, stderrOut, diags, nAppends, arbiterVars,
                   appendHist, emittedAfterByte>>
    /\ UNCHANGED gateVars

(* variant: the restricted relay leaves its loop when there is nothing to  *)
(* print                                                                   *)
AfterNoPrint_Break(v) == IF v = "general" THEN "sleep10" ELSE "exited"

(* what follows a read that gave nothing to print: the else branch with    *)
(* the 10 ms sleep in the general-purpose variant; in the restricted       *)
(* variant there is no else branch and the loop goes straight on           *)
AfterNoPrint(v) == IF v = "general" THEN "sleep10" ELSE "read"

RelayAct ==
    /\ rpc = "act"
    /\ IF ShouldPrint(buf, printed_messages)
       THEN /\ printed_messages' = printed_messages \cup {buf}
            /\ stderrOut' = Append(stderrOut, buf)
            /\ emittedAfterByte' = (emittedAfterByte \/ byteWritten)
            /\ rpc' = "read"
       ELSE /\ rpc' = AfterNoPrint(variant)
            /\ UNCHANGED <<printed_messages, stderrOut, emittedAfterByte>>
    /\ buf' = <<>>
    /\ UNCHANGED <<envVars, hostAlive, logExists, log, fpos, rbuf, diags,
                   nAppends, arbiterVars, appendHist>>
    /\ UNCHANGED gateVars

RelaySleep ==
    /\ rpc \in {"sleep10", "sleep250"}
    /\ rpc' = "read"
    /\ UNCHANGED <<envVars, hostAlive, logExists, log, fpos, rbuf, buf,
                   printed_messages, stderrOut, diags, nAppends, arbiterVars,
                   appendHist, emittedAfterByte>>
    /\ UNCHANGED gateVars

(* the agent appends one whole line to the notification log *)
AgentAppend ==
    /\ nAppends < MaxAppends
    /\ \E l \in Lines :
         /\ log' = log \o l
         /\ appendHist' = Append(appendHist,
                                 [line |-> l, tailing |-> rpc \in Tailing,
                                  flag |-> HAS_RECEIVED_STDOUT])
    /\ logExists' = TRUE
    /\ nAppends' = nAppends + 1
    /\ UNCHANGED <<envVars, hostAlive, rpc, fpos, rbuf, buf, printed_messages,
                   stderrOut, diags, arbiterVars, emittedAfterByte>>
    /\ UNCHANGED gateVars

(* the beginnings of a line, as a write that stopped short leaves them *)
PartialLines == {<<97>>, <<97, 98>>}

(* the agent's append reaches the file without its line feed yet; the rest *)
(* of the line follows in a later append                                   *)
AgentAppendPart ==
    /\ nAppends < MaxAppends
    /\ \E l \in PartialLines :
         /\ log' = log \o l
         /\ appendHist' = Append(appendHist,
                                 [line |-> l, tailing |-> rpc \in Tailing,
                                  flag |-> HAS_RECEIVED_STDOUT])
    /\ logExists' = TRUE
    /\ nAppends' = nAppends + 1
    /\ UNCHANGED <<envVars, hostAlive, rpc, fpos, rbuf, buf, printed_messages,
                   stderrOut, diags, arbiterVars, emittedAfterByte>>
    /\ UNCHANGED gateVars

(* a second helper process loads the library while this relay is tailing: *)
(* its relay opens the same log, with truncate(true) in both variants     *)
OtherRelayOpen ==
    /\ rpc \in Tailing /\ logExists
    /\ log' = OpenTruncate(log)
    /\ UNCHANGED <<envVars, hostAlive, logExists, rpc, fpos, rbuf, buf,
                   printed_messages, stderrOut, diags, nAppends, arbiterVars,
                   appendHist, emittedAfterByte>>
    /\ UNCHANGED gateVars

(* ------------------------------ stdout arbiter ------------------------- *)
relayThreadVars == <<rpc, fpos, rbuf, buf, printed_messages, stderrOut, diags,
                     nAppends, logExists, log, appendHist, emittedAfterByte, hostAlive>>

(* the host program writes one byte to its standard output *)
HostWrite ==
    /\ variant = "general" /\ loadPc = "loaded" /\ outCount < MaxOut
    /\ stdoutTarget = "pipe" => pipeOpen
    /\ outCount' = outCount + 1
    /\ IF stdoutTarget = "pipe"
       THEN /\ pipe' = Append(pipe, outCount + 1)
            /\ byteWritten' = TRUE
            /\ UNCHANGED real_stdout
       ELSE /\ real_stdout' = Append(real_stdout, outCount + 1)
            /\ UNCHANGED <<pipe, byteWritten>>
    /\ UNCHANGED <<envVars, relayThreadVars, HAS_RECEIVED_STDOUT, stdoutTarget,
                   wpc, wbuf, chunk>>
    /\ UNCHANGED pipeVars
    /\ UNCHANGED gateVars

(* variant: the byte is passed on without the store *)
AfterReadExact_Write == "write_first"

(* what the watcher does first with the byte read_exact gave it: the store *)
(* of the flag, and only then the write to the real descriptor             *)
AfterReadExact == "store"

(* pipe_read.read_exact(&mut byte_buf): the BufReader takes what the pipe  *)
(* holds and hands out the first byte                                      *)
WatcherReadExact ==
    /\ wpc = "read_exact" /\ pipe # <<>>
    /\ chunk' = <<Head(pipe)>>
    /\ wbuf' = Tail(pipe)
    /\ pipe' = <<>>
    /\ wpc' = AfterReadExact
    /\ UNCHANGED <<envVars, relayThreadVars, HAS_RECEIVED_STDOUT, stdoutTarget,
                   real_stdout, outCount, byteWritten>>
    /\ UNCHANGED pipeVars
    /\ UNCHANGED gateVars

(* variant: the store is left out *)
WatcherStore_NoStore ==
    /\ wpc = "store"
    /\ wpc' = "write_first"
    /\ UNCHANGED <<envVars, relayThreadVars, stdoutTarget, pipe, wbuf, chunk,
                   real_stdout, outCount, byteWritten, HAS_RECEIVED_STDOUT>>
    /\ UNCHANGED pipeVars
    /\ UNCHANGED gateVars

(* HAS_RECEIVED_STDOUT.store(true, SeqCst) *)
WatcherStore ==
    /\ wpc = "store"
    /\ HAS_RECEIVED_STDOUT' = TRUE
    /\ wpc' = "write_first"
    /\ UNCHANGED <<envVars, relayThreadVars, stdoutTarget, pipe, wbuf, chunk,
                   real_stdout, outCount, byteWritten>>
    /\ UNCHANGED pipeVars
    /\ UNCHANGED gateVars

(* variant: the watcher clears the flag once it has passed the bytes on *)
WatcherWrite_ClearsFlag ==
    /\ wpc \in {"write_first", "loop_write"}
    /\ \E k \in 0..Len(chunk) :
         real_stdout' = real_stdout \o SubSeq(chunk, 1, k)
    /\ chunk' = <<>>
    /\ wpc' = "loop_read"
    /\ HAS_RECEIVED_STDOUT' = FALSE
    /\ UNCHANGED <<envVars, relayThreadVars, stdoutTarget,
                   pipe, wbuf, outCount, byteWritten>>
    /\ UNCHANGED pipeVars
    /\ UNCHANGED gateVars

(* real_stdout.write(..): the descriptor takes a prefix of the bytes; the  *)
(* count written is not looked at                                          *)
WatcherWrite ==
    /\ wpc \in {"write_first", "loop_write"}
    /\ \E k \in 0..Len(chunk) :
         real_stdout' = real_stdout \o SubSeq(chunk, 1, k)
    /\ chunk' = <<>>
    /\ wpc' = "loop_read"
    /\ UNCHANGED <<envVars, relayThreadVars, HAS_RECEIVED_STDOUT, stdoutTarget,
                   pipe, wbuf, outCount, byteWritten>>
    /\ UNCHANGED pipeVars
    /\ UNCHANGED gateVars

(* pipe_read.read(&mut larger_buf): the buffered bytes if there are any,   *)
(* else what the pipe holds (the 32 KiB buffer takes all of it)            *)
WatcherLoopRead ==
    /\ wpc = "loop_read"
    /\ IF wbuf # <<>>
       THEN /\ chunk' = wbuf
            /\ wbuf' = <<>>
            /\ UNCHANGED pipe
       ELSE /\ pipe # <<>>
            /\ chunk' = pipe
            /\ pipe' = <<>>
            /\ UNCHANGED wbuf
    /\ wpc' = "loop_write"
    /\ UNCHANGED <<envVars, relayThreadVars, HAS_RECEIVED_STDOUT, stdoutTarget,
                   real_stdout, outCount, byteWritten>>
    /\ UNCHANGED pipeVars
    /\ UNCHANGED gateVars

(* the host process exits: thread::spawn's JoinHandle was dropped, nothing *)
(* waits for the watcher or the relay, and both threads end where they are *)
HostExit ==
    /\ loadPc = "loaded" /\ hostAlive
    /\ hostAlive' = FALSE
    /\ loadPc' = "exited"
    /\ wpc' = IF wpc = "none" THEN "none" ELSE "killed"
    /\ rpc' = IF rpc = "none" THEN "none" ELSE "killed"
    /\ UNCHANGED <<variant, noStderrEnv, homeDir, logExists, log, fpos, rbuf,
                   buf, printed_messages, stderrOut, diags, nAppends,
                   HAS_RECEIVED_STDOUT, stdoutTarget, pipe, wbuf, chunk,
                   real_stdout, outCount, byteWritten, pipeVars, appendHist,
                   emittedAfterByte>>
    /\ UNCHANGED gateVars

(* the pipe comes to its end for the watcher: its write ends are closed,   *)
(* or the descriptor the watcher reads from goes bad                       *)
PipeCloses ==
    /\ stdoutTarget = "pipe" /\ pipeOpen
    /\ pipeOpen' = FALSE
    /\ UNCHANGED <<envVars, relayThreadVars, HAS_RECEIVED_STDOUT, stdoutTarget,
                   pipe, wpc, wbuf, chunk, real_stdout, outCount, byteWritten,
                   sawPipeEnd>>
    /\ UNCHANGED gateVars

(* read_exact on the ended pipe returns Err: the if-let fails and the      *)
(* thread's closure returns                                                *)
WatcherReadExactFails ==
    /\ wpc = "read_exact" /\ pipe = <<>> /\ ~pipeOpen
    /\ sawPipeEnd' = TRUE
    /\ wpc' = "exited"
    /\ UNCHANGED <<envVars, relayThreadVars, HAS_RECEIVED_STDOUT, stdoutTarget,
                   pipe, wbuf, chunk, real_stdout, outCount, byteWritten,
                   pipeOpen>>
    /\ UNCHANGED gateVars

(* the read in the loop on the ended pipe: Ok(0), and the empty slice is   *)
(* written, or Err, and the if-let skips the write; either way the loop    *)
(* goes round again                                                        *)
WatcherLoopReadEnd ==
    /\ wpc = "loop_read" /\ wbuf = <<>> /\ pipe = <<>> /\ ~pipeOpen
    /\ sawPipeEnd' = TRUE
    /\ \E ok \in BOOLEAN : wpc' = IF ok THEN "loop_write" ELSE "loop_read"
    /\ chunk' = <<>>
    /\ UNCHANGED <<envVars, relayThreadVars, HAS_RECEIVED_STDOUT, stdoutTarget,
                   pipe, wbuf, real_stdout, outCount, byteWritten, pipeOpen>>
    /\ UNCHANGED gateVars

(* the relay thread, the agent, and the arbiter up to the watcher's store  *)
(* of the flag; the forwarding that follows the store shares no state with *)
(* the relay thread and is part of NextArbiter                             *)
NextRelay ==
    \/ LoadGeneral
    \/ LoadRestricted
    \/ RelayHome
    \/ RelayOpen
    \/ RelaySeek
    \/ RelayRead
    \/ RelayReadErr
    \/ RelayCheck
    \/ RelayAct
    \/ RelaySleep
    \/ AgentAppend
    \/ HostWrite
    \/ WatcherReadExact
    \/ WatcherStore

(* the arbiter alone: the host's writes and the whole watcher thread *)
NextArbiter ==
    \/ LoadGeneral
    \/ HostWrite
    \/ WatcherReadExact
    \/ WatcherStore
    \/ WatcherWrite
    \/ WatcherLoopRead

(* the steps of the general relay thread when read_line returns Ok *)
RelayThread ==
    \/ RelayOpen
    \/ RelaySeek
    \/ RelayRead
    \/ RelayCheck
    \/ RelayAct
    \/ RelaySleep

(* the general variant with log reads that do not fail, and the watcher  *)
(* up to its store: its forwarding afterwards shares nothing with the     *)
(* relay thread                                                           *)
NextFair ==
    \/ LoadGeneral
    \/ RelayThread
    \/ AgentAppend
    \/ HostWrite
    \/ WatcherReadExact
    \/ WatcherStore

(* the arbiter with a pipe that can come to its end *)
NextPipe ==
    \/ LoadGeneral
    \/ HostWrite
    \/ WatcherReadExact
    \/ WatcherStore
    \/ WatcherWrite
    \/ WatcherLoopRead
    \/ PipeCloses
    \/ WatcherReadExactFails
    \/ WatcherLoopReadEnd

(* =============================== session gate ========================== *)
Threads == {"t1", "t2", "t3"}

STDERR_FILENO == 2

None == <<>>
Some(x) == <<x>>

(* paths *)
Home == "/home/user"
SudoHome == "/home/sudoer"
Push(dir, name) == <<dir, name>>
OtherSock == <<"/tmp", "ssh-agent.sock">>
StaleSock == <<"/tmp", "stale-agent.sock">>

(* get_user_by_name(&sudo_user).map(|u| u.home_dir()) / env::home_dir() *)
ResolveHome_Fallback(sudo, home) ==
    IF sudo = "known" THEN Some(SudoHome)
    ELSE (IF home THEN Some(Home) ELSE None)

ResolveHome(sudo, home) ==
    IF sudo # "unset"
    THEN (IF sudo = "known" THEN Some(SudoHome) ELSE None)
    ELSE (IF home THEN Some(Home) ELSE None)

(* krd_auth_sock.push(".kr/krd-agent.sock") *)
KrdAuthSock(h) == Push(h, ".kr/krd-agent.sock")

(* ------------------------- descriptor table ---------------------------- *)
FdRange == 0..(FdLimit - 1)
OpenFds(f) == {i \in FdRange : f[i] # "closed"}
LowestFree(f) ==
    IF \A i \in FdRange : f[i] # "closed" THEN -1
    ELSE CHOOSE i \in FdRange : f[i] = "closed" /\ \A j \in 0..(i-1) : f[j] # "closed"
ValidFd(f, fd) == fd \in FdRange /\ f[fd] # "closed"

(* libc::dup(fd): the new descriptor, or -1 *)
dup(f, fd) == IF ValidFd(f, fd) THEN LowestFree(f) ELSE -1
AfterDup(f, fd) == IF dup(f, fd) = -1 THEN f ELSE [f EXCEPT ![dup(f, fd)] = f[fd]]

(* libc::dup2(oldfd, newfd): the table afterwards *)
dup2(f, oldfd, newfd) == IF ValidFd(f, oldfd) THEN [f EXCEPT ![newfd] = f[oldfd]] ELSE f

(* the File for /dev/null going out of scope *)
close(f, fd) == [f EXCEPT ![fd] = "closed"]

(* the stderr swap of CK_C_Initialize: open /dev/null, save a duplicate of *)
(* stderr, put /dev/null on stderr, drop the File                          *)
SwapStderr(f, old) ==
    LET n == LowestFree(f)
    IN IF n = -1
       THEN [fds |-> f, old |-> old]
       ELSE LET f1 == [f EXCEPT ![n] = "/dev/null"]
                saved == dup(f1, STDERR_FILENO)
                f2 == AfterDup(f1, STDERR_FILENO)
                f3 == dup2(f2, n, STDERR_FILENO)
            IN [fds |-> close(f3, n), old |-> Some(saved)]

(* the stderr restore of CK_C_Finalize *)
RestoreStderr(f, old) ==
    IF old # None
    THEN [fds |-> dup2(f, old[1], STDERR_FILENO), old |-> old]
    ELSE [fds |-> f, old |-> old]

(* variant: the stale link is not removed before the symlink call *)
(* fs::remove_file(backup), symlink(original, backup): rm and sl say      *)
(* whether the file system lets the call through                           *)
AfterRemove(link, rm) == IF rm THEN None ELSE link

NeedsBackup(orig, krd) == orig # krd

SymlinkOk(link, sl) == sl /\ link = None

(* variant: the stale link is not removed before the symlink call *)
RerouteBackup_NoRemove(link, orig, krd, rm, sl) ==
    IF orig # krd /\ sl /\ link = None THEN Some(orig) ELSE link

(* the backup link after lines 60-69 *)

RerouteBackup(link, orig, krd, rm, sl) ==
    LET removed == AfterRemove(link, rm)
    IN IF NeedsBackup(orig, krd) /\ SymlinkOk(removed, sl) THEN Some(orig)
       ELSE removed

(* what a handler leaves behind: its status, the count it stored through   *)
(* the count pointer and the items it stored through the list pointer      *)
Ret(rv, count, out) == [rv |-> rv, count |-> count, out |-> out]

NoCall == [entry |-> "none", listNull |-> FALSE, count |-> 0,
           type |-> "CKM_RSA_PKCS", ret |-> Ret("none", 0, <<>>)]

(* the threads of the host that call Initialize and Finalize *)
Callers == {"t1", "t2"}

(* the host's descriptor table when the shim is loaded: the three standard *)
(* descriptors only, or so many files open that one descriptor is left     *)
StdTable == [i \in FdRange |-> IF i = 0 THEN "stdin" ELSE IF i = 1 THEN "stdout"
                               ELSE IF i = 2 THEN "tty" ELSE "closed"]
BusyTable == [i \in FdRange |-> IF i = FdLimit - 1 THEN "closed"
                                ELSE IF i > 2 THEN "file" ELSE StdTable[i]]

GateIdle ==
    /\ sudoUser = "unset" /\ gateHome = TRUE /\ sshAuthSock = None
    /\ backup = None
    /\ fds = StdTable
    /\ OLD_STDERR_FD = None
    /\ next_session_handle = 1
    /\ tpc = [t \in Threads |-> "idle"]
    /\ tflags = [t \in Threads |-> {}]
    /\ tfetched = [t \in Threads |-> 0]
    /\ tsession = [t \in Threads |-> 0]
    /\ trv = [t \in Threads |-> "none"]
    /\ gateCalls = 0 /\ sessionCalls = 0
    /\ handed = <<>> /\ rejects = 0 /\ last = "none" /\ paired = TRUE
    /\ lastInit = [krd |-> None, orig |-> None, linked |-> FALSE,
                   backupBefore |-> None, stderrBefore |-> "tty",
                   openBefore |-> {0, 1, 2}, rv |-> "none"]
    /\ lastCall = NoCall
    /\ ppc = [t \in Callers |-> "start"]

GateInit ==
    /\ sudoUser \in {"unset", "known", "unknown"}
    /\ gateHome \in BOOLEAN
    /\ sshAuthSock \in {None, Some(OtherSock), Some(KrdAuthSock(Home))}
    /\ backup \in {None, Some(StaleSock)}
    /\ fds \in {StdTable, BusyTable}
    /\ OLD_STDERR_FD = None
    /\ next_session_handle = 1
    /\ tpc = [t \in Threads |-> "idle"]
    /\ tflags = [t \in Threads |-> {}]
    /\ tfetched = [t \in Threads |-> 0]
    /\ tsession = [t \in Threads |-> 0]
    /\ trv = [t \in Threads |-> "none"]
    /\ gateCalls = 0 /\ sessionCalls = 0
    /\ handed = <<>> /\ rejects = 0 /\ last = "none" /\ paired = TRUE
    /\ lastInit = [krd |-> None, orig |-> None, linked |-> FALSE,
                   backupBefore |-> None, stderrBefore |-> "tty",
                   openBefore |-> {0, 1, 2}, rv |-> "none"]
    /\ lastCall = NoCall
    /\ ppc = [t \in Callers |-> "start"]

tableVars == <<lastCall>>

sessionVars == <<next_session_handle, tpc, tflags, tfetched, tsession, trv,
                 sessionCalls, handed, rejects>>

(* env::set_var("SSH_AUTH_SOCK", krd_auth_sock) *)
SetAuthSock_IfUnset(orig, krd) == IF orig = None THEN Some(krd) ELSE orig

SetAuthSock(orig, krd) == Some(krd)

Initialize ==
    /\ gateCalls < MaxGateCalls
    /\ gateCalls' = gateCalls + 1
    /\ LET home == ResolveHome(sudoUser, gateHome)
       IN \E rm \in BOOLEAN, sl \in BOOLEAN :
            /\ IF home # None
               THEN LET krd == KrdAuthSock(home[1])
                    IN /\ backup' = IF sshAuthSock # None /\ gateHome
                                    THEN RerouteBackup(backup, sshAuthSock[1], krd, rm, sl)
                                    ELSE backup
                       /\ sshAuthSock' = SetAuthSock(sshAuthSock, krd)
                       /\ lastInit' =
                            [krd |-> Some(krd), orig |-> sshAuthSock,
                             linked |-> /\ sshAuthSock # None /\ gateHome
                                        /\ NeedsBackup(sshAuthSock[1], krd)
                                        /\ SymlinkOk(AfterRemove(backup, rm), sl),
                             backupBefore |-> backup,
                             stderrBefore |-> fds[STDERR_FILENO],
                             openBefore |-> OpenFds(fds), rv |-> "CKR_OK"]
               ELSE /\ UNCHANGED <<backup, sshAuthSock>>
                    /\ lastInit' =
                            [krd |-> None, orig |-> sshAuthSock, linked |-> FALSE,
                             backupBefore |-> backup,
                             stderrBefore |-> fds[STDERR_FILENO],
                             openBefore |-> OpenFds(fds), rv |-> "CKR_OK"]
    /\ LET r == SwapStderr(fds, OLD_STDERR_FD)
       IN /\ fds' = r.fds
          /\ OLD_STDERR_FD' = r.old
    /\ last' = "init"
    /\ paired' = (paired /\ last # "init")
    /\ UNCHANGED <<sudoUser, gateHome, sessionVars, tableVars>>
    /\ UNCHANGED relayVars

Finalize ==
    /\ gateCalls < MaxGateCalls
    /\ gateCalls' = gateCalls + 1
    /\ LET r == RestoreStderr(fds, OLD_STDERR_FD)
       IN /\ fds' = r.fds
          /\ OLD_STDERR_FD' = r.old
    /\ last' = "fin"
    /\ paired' = (paired /\ last = "init")
    /\ UNCHANGED <<sudoUser, gateHome, sshAuthSock, backup, lastInit, sessionVars,
                   tableVars>>
    /\ UNCHANGED relayVars

(* the entries as the host may call them, in any order *)
CK_C_Initialize == Initialize /\ UNCHANGED ppc

CK_C_Finalize == Finalize /\ UNCHANGED ppc

(* a thread that pairs its calls: Initialize, later Finalize, and again.   *)
(* The lock on OLD_STDERR_FD is taken and released inside each call.       *)
ThreadInitialize(t) ==
    /\ ppc[t] = "start"
    /\ ppc' = [ppc EXCEPT ![t] = "inited"]
    /\ Initialize

ThreadFinalize(t) ==
    /\ ppc[t] = "inited"
    /\ ppc' = [ppc EXCEPT ![t] = "start"]
    /\ Finalize

(* flags & CKF_SERIAL_SESSION, the flag word held as the set of its bits *)
Flags == SUBSET {"CKF_RW_SESSION", "CKF_SERIAL_SESSION"}

(* variant: the serial bit is not tested *)
SerialRequested_Always(flags) == TRUE

SerialRequested(flags) == "CKF_SERIAL_SESSION" \in flags

(* variant: the counter is read but the sum is not stored *)
fetch_add_NoStore(c) == [old |-> c, new |-> c]

(* AtomicUsize::fetch_add(1, SeqCst): the value returned and the value left *)
fetch_add(c) == [old |-> c, new |-> c + 1]

gateEnvVars == <<sudoUser, gateHome, sshAuthSock, backup, fds, OLD_STDERR_FD,
                 gateCalls, last, paired, lastInit, tableVars, ppc>>

(* a thread enters C_OpenSession *)
OpenSessionCall(t) ==
    /\ tpc[t] = "idle" /\ sessionCalls < MaxSessionCalls
    /\ sessionCalls' = sessionCalls + 1
    /\ \E flags \in Flags : tflags' = [tflags EXCEPT ![t] = flags]
    /\ tpc' = [tpc EXCEPT ![t] = "called"]
    /\ trv' = [trv EXCEPT ![t] = "none"]
    /\ UNCHANGED <<next_session_handle, tsession, tfetched, handed, rejects>>
    /\ UNCHANGED gateEnvVars
    /\ UNCHANGED relayVars

(* C_OpenSession up to the fetch_add: the flag test, then the increment *)
CK_C_OpenSession(t) ==
    /\ tpc[t] = "called"
    /\ IF ~SerialRequested(tflags[t])
       THEN /\ trv' = [trv EXCEPT ![t] = "CKR_SESSION_PARALLEL_NOT_SUPPORTED"]
            /\ tpc' = [tpc EXCEPT ![t] = "idle"]
            /\ rejects' = rejects + 1
            /\ UNCHANGED <<next_session_handle, tfetched, handed>>
       ELSE /\ tfetched' = [tfetched EXCEPT ![t] = fetch_add(next_session_handle).old]
            /\ next_session_handle' = fetch_add(next_session_handle).new
            /\ handed' = Append(handed, fetch_add(next_session_handle).old)
            /\ tpc' = [tpc EXCEPT ![t] = "store"]
            /\ UNCHANGED <<trv, rejects>>
    /\ UNCHANGED <<tflags, tsession, sessionCalls>>
    /\ UNCHANGED gateEnvVars
    /\ UNCHANGED relayVars

(* *session = ..; CKR_OK *)
OpenSessionStore(t) ==
    /\ tpc[t] = "store"
    /\ tsession' = [tsession EXCEPT ![t] = tfetched[t]]
    /\ trv' = [trv EXCEPT ![t] = "CKR_OK"]
    /\ tpc' = [tpc EXCEPT ![t] = "idle"]
    /\ UNCHANGED <<next_session_handle, tflags, tfetched, sessionCalls, handed,
                   rejects>>
    /\ UNCHANGED gateEnvVars
    /\ UNCHANGED relayVars

(* --------------------------- function table ---------------------------- *)
(* the entries of FUNCTION_LIST whose handlers are the stubs of            *)
(* pkcs11_unused.rs                                                        *)
UnusedEntries ==
    {"C_WaitForSlotEvent", "C_InitToken", "C_InitPIN", "C_SetPIN",
     "C_CloseSession", "C_CloseAllSessions", "C_GetOperationState",
     "C_SetOperationState", "C_Login", "C_Logout", "C_CreateObject",
     "C_CopyObject", "C_DestroyObject", "C_GetObjectSize",
     "C_SetAttributeValue", "C_EncryptInit", "C_Encrypt",
     "C_EncryptUpdate", "C_EncryptFinal", "C_DecryptInit", "C_Decrypt",
     "C_DecryptUpdate", "C_DecryptFinal", "C_DigestInit", "C_Digest",
     "C_DigestUpdate", "C_DigestKey", "C_DigestFinal", "C_SignInit",
     "C_Sign", "C_SignUpdate", "C_SignFinal", "C_SignRecoverInit",
     "C_SignRecover", "C_VerifyInit", "C_Verify", "C_VerifyUpdate",
     "C_VerifyFinal", "C_VerifyRecoverInit", "C_VerifyRecover",
     "C_DigestEncryptUpdate", "C_DecryptDigestUpdate",
     "C_SignEncryptUpdate", "C_DecryptVerifyUpdate", "C_GenerateKey",
     "C_GenerateKeyPair", "C_WrapKey", "C_UnwrapKey", "C_DeriveKey",
     "C_SeedRandom", "C_GenerateRandom", "C_GetFunctionStatus",
     "C_CancelFunction"}

(* the entries whose handlers are written out in pkcs11shim.rs *)
ShimEntries ==
    {"C_Initialize", "C_Finalize", "C_GetInfo", "C_GetFunctionList",
     "C_GetSlotList", "C_GetSlotInfo", "C_GetTokenInfo", "C_GetMechanismList",
     "C_GetMechanismInfo", "C_OpenSession", "C_GetSessionInfo",
     "C_GetAttributeValue", "C_FindObjectsInit", "C_FindObjects",
     "C_FindObjectsFinal"}

FUNCTION_LIST == ShimEntries \cup UnusedEntries

MECHANISM_LIST == <<"CKM_RSA_PKCS", "CKM_SHA256_RSA_PKCS">>
MechanismTypes == {"CKM_RSA_PKCS", "CKM_SHA256_RSA_PKCS", "CKM_SHA_1"}

(* variant: a stub answers CKR_OK *)
pkcs11_unused_Ok(entry) == "CKR_OK"

(* every handler of pkcs11_unused.rs *)
pkcs11_unused(entry) == "CKR_FUNCTION_NOT_SUPPORTED"

CK_C_GetSlotList(listNull, count) ==
    IF listNull
    THEN Ret("CKR_OK", 1, <<>>)
    ELSE IF count < 1
         THEN Ret("CKR_BUFFER_TOO_SMALL", count, <<>>)
         ELSE Ret("CKR_OK", 1, <<1>>)

CK_C_GetMechanismList(listNull, count) ==
    IF listNull
    THEN Ret("CKR_OK", Len(MECHANISM_LIST), <<>>)
    ELSE IF count < Len(MECHANISM_LIST)
         THEN Ret("CKR_BUFFER_TOO_SMALL", count, <<>>)
         ELSE Ret("CKR_OK", count, MECHANISM_LIST)

(* the info record is filled for CKM_RSA_PKCS only; the status is the same *)
CK_C_GetMechanismInfo(type, count) ==
    IF type = "CKM_RSA_PKCS"
    THEN Ret("CKR_OK", count, <<"CKF_SIGN|CKF_HW">>)
    ELSE Ret("CKR_OK", count, <<>>)

(* *object_count = 0 *)
CK_C_FindObjects(count) == Ret("CKR_OK", 0, <<>>)

(* the handler behind an entry, applied to the caller's arguments *)
Handler(entry, listNull, count, type) ==
    CASE entry \in UnusedEntries -> Ret(pkcs11_unused(entry), count, <<>>)
      [] entry = "C_GetAttributeValue" ->
            Ret("CKR_FUNCTION_NOT_SUPPORTED", count, <<>>)
      [] entry = "C_GetSlotList" -> CK_C_GetSlotList(listNull, count)
      [] entry = "C_GetMechanismList" -> CK_C_GetMechanismList(listNull, count)
      [] entry = "C_GetMechanismInfo" -> CK_C_GetMechanismInfo(type, count)
      [] entry = "C_FindObjects" -> CK_C_FindObjects(count)
      [] entry = "C_GetFunctionList" -> Ret("CKR_OK", count, <<"FUNCTION_LIST">>)
      [] entry \in {"C_GetInfo", "C_GetSlotInfo", "C_GetTokenInfo",
                    "C_GetSessionInfo"} -> Ret("CKR_OK", count, <<"info">>)
      [] entry \in {"C_FindObjectsInit", "C_FindObjectsFinal"} ->
            Ret("CKR_OK", count, <<>>)

(* the entries the gate and session actions above already model *)
GateEntries == {"C_Initialize", "C_Finalize", "C_OpenSession"}

(* the host calls one of the remaining entries of the table, with its *)
(* arguments drawn from the given sets                                 *)
TableCallOf(nulls, counts, types) ==
    \E entry \in FUNCTION_LIST \ GateEntries, listNull \in nulls,
       count \in counts, type \in types :
        /\ lastCall' = [entry |-> entry, listNull |-> listNull, count |-> count,
                        type |-> type,
                        ret |-> Handler(entry, listNull, count, type)]
        /\ UNCHANGED <<sudoUser, gateHome, sshAuthSock, backup, fds,
                       OLD_STDERR_FD, gateCalls, last, paired, lastInit,
                       sessionVars, ppc>>
        /\ UNCHANGED relayVars

TableCall == TableCallOf(BOOLEAN, 0..MaxCount, MechanismTypes)

NextTable == TableCall

(* a host that uses the whole table from one thread: the gate, the       *)
(* sessions and the other entries, at most MaxShimCalls gate and session *)
(* calls in all                                                           *)
ShimBudget == gateCalls + sessionCalls < MaxShimCalls
ShimThread == "t1"

NextShim ==
    \/ ShimBudget /\ CK_C_Initialize
    \/ ShimBudget /\ CK_C_Finalize
    \/ ShimBudget /\ OpenSessionCall(ShimThread)
    \/ CK_C_OpenSession(ShimThread)
    \/ OpenSessionStore(ShimThread)
    \/ TableCallOf({FALSE}, {0}, {"CKM_RSA_PKCS"})

NextGate ==
    \/ CK_C_Initialize
    \/ CK_C_Finalize

NextPairs ==
    \/ \E t \in Callers : ThreadInitialize(t)
    \/ \E t \in Callers : ThreadFinalize(t)

NextSession ==
    \/ \E t \in Threads : OpenSessionCall(t)
    \/ \E t \in Threads : CK_C_OpenSession(t)
    \/ \E t \in Threads : OpenSessionStore(t)

(* ============================ specifications =========================== *)
Init == RelayInit /\ GateIdle
Next == NextRelay
Spec == Init /\ [][Next]_vars

SpecArbiter == Init /\ [][NextArbiter]_vars

(* the scheduler runs the relay thread whenever it can take a step: a *)
(* sleep ends, a read of a regular file returns                       *)
SpecFair == Init /\ [][NextFair]_vars /\ WF_vars(RelayThread)

(* the relay thread with appends that can stop short of the line feed *)
NextPartial ==
    \/ LoadGeneral
    \/ LoadRestricted
    \/ RelayHome
    \/ RelayOpen
    \/ RelaySeek
    \/ RelayRead
    \/ RelayReadErr
    \/ RelayCheck
    \/ RelayAct
    \/ RelaySleep
    \/ AgentAppend
    \/ AgentAppendPart
SpecPartial == Init /\ [][NextPartial]_vars

SpecPipe == Init /\ [][NextPipe]_vars

(* the arbiter in a host that exits *)
NextExit ==
    \/ LoadGeneral
    \/ HostWrite
    \/ WatcherReadExact
    \/ WatcherStore
    \/ WatcherWrite
    \/ WatcherLoopRead
    \/ HostExit
SpecExit == Init /\ [][NextExit]_vars

(* the relay thread while a second relay instance opens the shared log *)
NextShared ==
    \/ LoadGeneral
    \/ LoadRestricted
    \/ RelayHome
    \/ RelayOpen
    \/ RelaySeek
    \/ RelayRead
    \/ RelayReadErr
    \/ RelayCheck
    \/ RelayAct
    \/ RelaySleep
    \/ AgentAppend
    \/ OtherRelayOpen
SpecShared == Init /\ [][NextShared]_vars

InitGate == RelayOff /\ GateInit
SpecGate == InitGate /\ [][NextGate]_vars

InitSession == RelayOff /\ GateIdle
SpecSession == InitSession /\ [][NextSession]_vars

SpecPairs == InitGate /\ [][NextPairs]_vars

(* the host runs as the invoking user, with the standard descriptors *)
InitShim ==
    /\ InitGate
    /\ sudoUser = "unset" /\ gateHome
    /\ backup = None
    /\ fds = StdTable
SpecShim == InitShim /\ [][NextShim]_vars

InitTable == RelayOff /\ GateIdle
SpecTable == InitTable /\ [][NextTable]_vars

(* ================================ claims =============================== *)
NonTrivial(l) == Len(l) > 1
Distinct(s) == \A i, j \in 1..Len(s) : i # j => s[i] # s[j]
IsPrefix(a, b) == Len(a) <= Len(b) /\ a = SubSeq(b, 1, Len(a))
Occurrences(x, s) == Cardinality({i \in 1..Len(s) : s[i] = x})

WhileTailing(h) == h.tailing

(* the lines appended after the relay began tailing, in append order *)
appended == LET t == SelectSeq(appendHist, WhileTailing)
            IN [i \in 1..Len(t) |-> t[i].line]
(* the lines appended while the flag was still false *)
preFlagLines == {appendHist[i].line : i \in {j \in 1..Len(appendHist) : ~appendHist[j].flag}}
postFlagLines == {appendHist[i].line : i \in {j \in 1..Len(appendHist) : appendHist[j].flag}}

(* the relay has consumed the whole log and handled what it read *)
CaughtUp == /\ rpc \in {"read", "sleep10", "sleep250"}
            /\ rbuf = <<>> /\ fpos >= Len(log)

(* C1: when the lines appended after the relay began tailing are distinct  *)
(* and non-trivial, what the relay has written to standard error is a      *)
(* prefix of them in append order, and all of them once it has caught up.  *)
C1_EmitsInAppendOrder ==
    (Distinct(appended) /\ \A i \in 1..Len(appended) : NonTrivial(appended[i]))
    => /\ IsPrefix(emitted, appended)
       /\ CaughtUp => emitted = appended

C1_Witness == /\ CaughtUp /\ errs > 0
              /\ appended = <<LineB, LineA>> /\ emitted = <<LineB, LineA>>

HasHandle(t) == tpc[t] = "store" \/ trv[t] = "CKR_OK"
HandleOf(t) == IF tpc[t] = "store" THEN tfetched[t] ELSE tsession[t]

(* C4: the handles given out, in the order of the atomic increments, are   *)
(* 1, 2, 3, ...; the counter is one past the last; two threads never hold  *)
(* the same handle.                                                        *)
C4_HandlesIncreaseFromOne ==
    /\ \A i \in 1..Len(handed) : handed[i] = i
    /\ next_session_handle = Len(handed) + 1
    /\ \A t \in Threads : HasHandle(t) => HandleOf(t) \in 1..Len(handed)
    /\ \A t, u \in Threads :
         (t # u /\ HasHandle(t) /\ HasHandle(u)) => HandleOf(t) # HandleOf(u)

C4_Witness == /\ handed = <<1, 2, 3>>
              /\ tsession["t1"] = 3 /\ tsession["t2"] = 1 /\ tsession["t3"] = 2

(* C5: a call without the serial flag returns the parallel-not-supported   *)
(* status, leaves the caller's handle slot and the counter alone.          *)
C5_RejectedCallAllocatesNothing ==
    [][\A t \in Threads :
         (tpc[t] = "called" /\ tpc'[t] # "called" /\ "CKF_SERIAL_SESSION" \notin tflags[t])
         => /\ tpc'[t] = "idle"
            /\ trv'[t] = "CKR_SESSION_PARALLEL_NOT_SUPPORTED"
            /\ tsession'[t] = tsession[t]
            /\ next_session_handle' = next_session_handle
            /\ handed' = handed]_vars

C5_Witness == /\ rejects = 2 /\ handed = <<1, 2>>
              /\ trv["t1"] = "CKR_SESSION_PARALLEL_NOT_SUPPORTED" /\ tsession["t1"] = 0

(* C6: in a run of Initialize/Finalize cycles, standard error is on the    *)
(* discard destination after each Initialize and back on its former        *)
(* destination after each Finalize.                                        *)
C6_CyclesMuteAndRestore ==
    paired => /\ last = "init" => fds[STDERR_FILENO] = "/dev/null"
              /\ last = "fin" => fds[STDERR_FILENO] = lastInit.stderrBefore

(* C7: after each completed Initialize/Finalize cycle the open descriptors *)
(* are those that were open before the cycle.                              *)
C7_NoDescriptorLeak ==
    (paired /\ last = "fin") => OpenFds(fds) = lastInit.openBefore

(* the case of C8: home resolved, a socket path given that is not the agent's *)
C8_Case == /\ lastInit.krd # None /\ lastInit.orig # None
           /\ lastInit.orig # lastInit.krd

(* C8 as stated: the variable holds the agent path and the backup link     *)
(* points at the original value.                                           *)
C8_BackupAlwaysMade ==
    C8_Case => sshAuthSock = lastInit.krd /\ backup = lastInit.orig

(* C8 amended: the variable holds the agent path; the backup link points   *)
(* at the original value when the symlink call succeeded, and otherwise    *)
(* is absent or still the stale link.                                      *)
C8_BackupMadeWhenLinked ==
    C8_Case => /\ sshAuthSock = lastInit.krd
               /\ lastInit.linked => backup = lastInit.orig
               /\ ~lastInit.linked => backup \in {None, lastInit.backupBefore}

C8_Witness == /\ C8_Case /\ lastInit.linked
              /\ lastInit.backupBefore = Some(StaleSock)
              /\ backup = Some(OtherSock)
              /\ sshAuthSock = Some(KrdAuthSock(Home))

(* C9: when the socket path given already is the agent's, Initialize       *)
(* leaves the backup path as it was.                                       *)
C9_BackupUntouchedWhenEqual ==
    (lastInit.krd # None /\ lastInit.orig = lastInit.krd)
    => backup = lastInit.backupBefore

Called == lastCall.entry # "none"

(* the entries of the table that answer queries instead of refusing *)
QueryEntries ==
    {"C_GetInfo", "C_GetFunctionList", "C_GetSlotList", "C_GetSlotInfo",
     "C_GetTokenInfo", "C_GetMechanismList", "C_GetMechanismInfo",
     "C_GetSessionInfo", "C_FindObjectsInit", "C_FindObjects",
     "C_FindObjectsFinal"}

(* C11 as stated: every table entry other than initialize, finalize and    *)
(* open-session returns the not-supported status for every input.          *)
C11_AllOthersUnsupported ==
    Called => lastCall.ret.rv = "CKR_FUNCTION_NOT_SUPPORTED"

(* C11 amended: every table entry other than initialize, finalize,         *)
(* open-session and the eleven query entries returns the not-supported     *)
(* status for every input; the query entries return CKR_OK, except that    *)
(* the slot list and the mechanism list return CKR_BUFFER_TOO_SMALL when    *)
(* given a list buffer whose count is below 1 and below 2 respectively.    *)
C11_OnlyStubsUnsupported ==
    Called =>
      LET e == lastCall.entry
          small == /\ ~lastCall.listNull
                   /\ \/ e = "C_GetSlotList" /\ lastCall.count < 1
                      \/ e = "C_GetMechanismList" /\ lastCall.count < 2
      IN lastCall.ret.rv =
            IF e \notin QueryEntries THEN "CKR_FUNCTION_NOT_SUPPORTED"
            ELSE IF small THEN "CKR_BUFFER_TOO_SMALL" ELSE "CKR_OK"

(* a stub entry was called and refused *)
C11_Witness ==
    /\ lastCall.entry = "C_Sign"
    /\ lastCall.ret.rv = "CKR_FUNCTION_NOT_SUPPORTED"

(* ---- C12 ---- *)
(* C12: SharedOutputFlag is false initially and no step takes it from true *)
(* back to false, so it changes at most once, from false to true.          *)
C12_FlagMonotonic ==
    /\ HAS_RECEIVED_STDOUT = FALSE
    /\ [][HAS_RECEIVED_STDOUT => HAS_RECEIVED_STDOUT']_vars

(* the flag was set and the watcher went on forwarding *)
C12_Witness ==
    /\ HAS_RECEIVED_STDOUT
    /\ wpc = "loop_write" /\ real_stdout # <<>>

(* ---- C13 ---- *)
(* the relay's load of the flag: the step that leaves "check" *)
RelayChecks == rpc = "check" /\ rpc' # "check"
ObservesTrue == rpc' = "exited"
WatcherHasStored == wpc \in {"write_first", "loop_read", "loop_write"}

(* C13 as stated: every check of SharedOutputFlag the relay performs after *)
(* the host has written a byte to the intercepted pipe observes true.      *)
C13_CheckAfterWriteSeesTrue ==
    [][(RelayChecks /\ byteWritten) => ObservesTrue]_vars

(* C13 amended: every check of SharedOutputFlag the relay performs after   *)
(* the watcher has read the byte and stored the flag observes true; a      *)
(* check made after the write and before that store can read false.        *)
C13_CheckAfterStoreSeesTrue ==
    [][(RelayChecks /\ WatcherHasStored) => ObservesTrue]_vars

(* the relay read a line after the store, saw the flag and left without    *)
(* writing anything                                                        *)
C13_Witness ==
    /\ rpc = "exited" /\ HAS_RECEIVED_STDOUT /\ diags = <<>>
    /\ appended # <<>> /\ stderrOut = <<>>

(* ---- C14 ---- *)
RECURSIVE Concat(_)
Concat(ss) == IF ss = <<>> THEN <<>> ELSE Head(ss) \o Concat(Tail(ss))

RECURSIVE SplitLines(_)
SplitLines(s) ==
    IF ~HasLF(s) THEN <<>>
    ELSE <<SubSeq(s, 1, FirstLF(s))>> \o SplitLines(Drop(s, FirstLF(s)))

Range(s) == {s[i] : i \in 1..Len(s)}

AllWhileTailing == \A i \in 1..Len(appendHist) : appendHist[i].tailing

(* the complete lines among the bytes appended so far *)
completeLines == SplitLines(Concat([i \in 1..Len(appendHist) |->
                                        appendHist[i].line]))

(* C14: bytes appended without their line feed are no new data: the relay  *)
(* emits only complete lines of the log, and once it has caught up every   *)
(* complete non-trivial line has been emitted as one line exactly once.    *)
C14_PartialLineIsNoData ==
    AllWhileTailing =>
        /\ \A i \in 1..Len(emitted) : emitted[i] \in Range(completeLines)
        /\ CaughtUp =>
             \A l \in Range(completeLines) :
                 NonTrivial(l) => Occurrences(l, emitted) = 1

(* ---- C15 ---- *)
(* the bytes the host has written, in the order written *)
written == [i \in 1..outCount |-> i]

(* C15: with standard output intercepted, the bytes that reached the real  *)
(* descriptor followed by those still on their way (in the watcher's hands *)
(* or in the pipe) are the bytes the host wrote, each once, in order.      *)
C15_ForwardsEveryByteInOrder ==
    stdoutTarget = "pipe" =>
        real_stdout \o chunk \o wbuf \o pipe = written

(* ---- C16 ---- *)
(* C16: the relay emits only lines appended after it positioned itself at  *)
(* the end of the log; what the log held before that is never emitted.     *)
C16_NoReplayOfHistory ==
    \A i \in 1..Len(emitted) : emitted[i] \in Range(appended)

(* a line was in the log before the relay sought to its end, another was   *)
(* appended afterwards, and only the second was emitted                    *)
C16_Witness ==
    /\ \E i \in 1..Len(appendHist) :
          ~appendHist[i].tailing /\ appendHist[i].line = LineA
    /\ appended = <<LineB>>
    /\ emitted = <<LineB>>
    /\ CaughtUp

(* ---- C17 ---- *)
(* C17: the log only grows by appends: no step, the relay's open included, *)
(* removes or changes bytes already in the log.                            *)
C17_LogOnlyGrows == [][IsPrefix(log, log')]_vars

(* ---- C18 ---- *)
(* C18: in the general-purpose variant with the disable variable set to    *)
(* any value at load time, standard output is never redirected, no watcher *)
(* and no relay thread exists, the flag stays false and no line is         *)
(* emitted.                                                                *)
C18_DisabledStaysOff ==
    (variant = "general" /\ noStderrEnv # "unset") =>
        /\ stdoutTarget = "real"
        /\ wpc = "none"
        /\ rpc = "none"
        /\ ~HAS_RECEIVED_STDOUT
        /\ emitted = <<>> /\ diags = <<>>

(* ---- C19 ---- *)
(* C19: with standard output intercepted, whenever at least one byte has   *)
(* reached the saved real standard output the flag is true.                *)
C19_FlagBeforeFirstForward ==
    (stdoutTarget = "pipe" /\ real_stdout # <<>>) => HAS_RECEIVED_STDOUT

(* the watcher has just passed the first byte on *)
C19_Witness ==
    /\ stdoutTarget = "pipe" /\ real_stdout = <<1>>
    /\ wpc = "loop_read" /\ HAS_RECEIVED_STDOUT

(* ---- C20 ---- *)
(* C20: once a read of the watcher has reported the end of the pipe (end   *)
(* of file or an error) the watcher thread is in its terminated state.     *)
C20_WatcherEndsWithPipe == sawPipeEnd => wpc = "exited"

(* ---- C21 ---- *)
(* C21: in the general-purpose variant a check that finds the flag true    *)
(* takes the relay to its exit, and from there the relay never moves again *)
(* and no line is emitted, whatever is appended afterwards.                *)
C21_ExitIsPermanent ==
    /\ [][(RelayChecks /\ HAS_RECEIVED_STDOUT) => rpc' = "exited"]_vars
    /\ [][rpc = "exited" => (rpc' = "exited" /\ emitted' = emitted)]_vars

(* the relay left on the flag, and a line was appended after it had left   *)
C21_Witness ==
    /\ variant = "general" /\ rpc = "exited" /\ HAS_RECEIVED_STDOUT
    /\ diags = <<>>
    /\ Len(appendHist) = 2
    /\ appendHist[1].tailing /\ ~appendHist[2].tailing
    /\ NonTrivial(appendHist[2].line)
    /\ appendHist[2].line \notin Range(emitted)

(* ---- C22 ---- *)
(* the general-purpose library went past its early returns and pipe()      *)
(* failed: the relay thread exists and standard output was not redirected  *)
PipeFailed ==
    /\ variant = "general" /\ loadPc = "loaded" /\ rpc # "none"
    /\ stdoutTarget = "real"

(* C22: when pipe creation fails, standard output keeps its destination    *)
(* (the host's bytes arrive there directly), there is no watcher thread,   *)
(* the flag stays false, and the relay tails and emits: it leaves only on  *)
(* a failed open, and once caught up it has emitted every non-trivial line *)
(* appended while it was tailing.                                          *)
C22_PipeFailureDisablesDetection ==
    PipeFailed =>
        /\ wpc = "none" /\ pipe = <<>>
        /\ real_stdout = written
        /\ ~HAS_RECEIVED_STDOUT
        /\ rpc = "exited" => diags = <<"open">>
        /\ CaughtUp =>
             \A i \in 1..Len(appended) :
                 NonTrivial(appended[i]) => appended[i] \in Range(emitted)

(* pipe() failed, the host wrote its output, and the relay emitted a line  *)
C22_Witness ==
    /\ PipeFailed /\ CaughtUp
    /\ real_stdout = <<1, 2>>
    /\ appended = <<LineA>> /\ emitted = <<LineA>>

(* ---- C23 ---- *)
(* C23: in the restricted variant with a home directory, a failed open of  *)
(* the log is retried: the relay thread is always either on its way to the *)
(* open, opening, or tailing, and never gone.                              *)
C23_OpenFailureRetries ==
    (variant = "restricted" /\ homeDir /\ loadPc = "loaded") =>
        rpc \in {"home", "open", "seek"} \cup Tailing

(* ---- C24 ---- *)
(* the relay left because it saw the flag (general-purpose variant only)   *)
LeftOnFlag == rpc = "exited" /\ variant = "general" /\ HAS_RECEIVED_STDOUT

(* C24: read errors do not end the relay thread: after any number of them  *)
(* the relay is still in its loop (unless it left on the flag), each error *)
(* is followed by the diagnostic and the 250 ms sleep, and once the relay  *)
(* has caught up every non-trivial line appended while it was tailing,     *)
(* those appended after the errors included, has been emitted.             *)
C24_ReadErrorsNeverTerminate ==
    /\ rpc = "sleep250" => errs > 0
    /\ errs > 0 =>
        /\ rpc \in Tailing \/ LeftOnFlag
        /\ CaughtUp =>
             \A i \in 1..Len(appended) :
                 NonTrivial(appended[i]) => appended[i] \in Range(emitted)

(* the relay went through two read errors, is back at its read, and has    *)
(* emitted both lines appended while it was tailing                        *)
C24_Witness ==
    /\ diags = <<"err", "err">> /\ CaughtUp /\ rpc = "read"
    /\ appended = <<LineA, LineB>>
    /\ emitted = <<LineA, LineB>>

(* ---- C25 ---- *)
(* the relay acts on a read that returned no data *)
ActsOnEmptyRead == rpc = "act" /\ rpc' # "act" /\ buf = <<>>

(* C25: in both variants a read that returns no new data is followed by    *)
(* the sleep step before the next read.                                    *)
C25_SleepAfterEmptyRead == [][ActsOnEmptyRead => rpc' = "sleep10"]_vars

(* ---- C26 ---- *)
(* C26: the restricted relay, once it is tailing, stays in its read loop   *)
(* through every step, and the flag it never looks at stays false.         *)
C26_RestrictedNeverLeaves ==
    [][(variant = "restricted" /\ rpc \in Tailing) =>
           (rpc' \in Tailing /\ ~HAS_RECEIVED_STDOUT')]_vars

(* the restricted relay has been through a read error, a line it emitted   *)
(* and a line it had nothing to print for, and is at its read again        *)
C26_Witness ==
    /\ variant = "restricted" /\ rpc = "read" /\ CaughtUp
    /\ diags = <<"err">>
    /\ appended = <<LineA, LineEmpty>>
    /\ emitted = <<LineA>>

(* ---- C27 ---- *)
(* C27: after every Finalize the saved-descriptor slot is empty.           *)
C27_FinalizeClearsSlot == last = "fin" => OLD_STDERR_FD = None

(* ---- C28 ---- *)
(* the last Initialize ran with one free descriptor: /dev/null takes it    *)
(* and dup(STDERR_FILENO) finds none                                       *)
DupFailedInInit ==
    /\ last = "init"
    /\ Cardinality(lastInit.openBefore) = FdLimit - 1

(* C28: when the duplication of stderr fails during Initialize the swap is *)
(* a no-op: stderr keeps its destination and the slot holds no descriptor; *)
(* stderr is never on /dev/null without a valid saved descriptor.          *)
C28_FailedDupIsNoOp ==
    /\ DupFailedInInit =>
           /\ fds[STDERR_FILENO] = lastInit.stderrBefore
           /\ (OLD_STDERR_FD = None \/ ValidFd(fds, OLD_STDERR_FD[1]))
    /\ (paired /\ last = "init" /\ fds[STDERR_FILENO] = "/dev/null") =>
           (OLD_STDERR_FD # None /\ ValidFd(fds, OLD_STDERR_FD[1]))

(* ---- C29 ---- *)
(* thread t enters its pair: its Initialize runs in this step *)
EntersPair(t) == ppc[t] = "start" /\ ppc'[t] = "inited"

(* C29: the lock around the saved descriptor serialises the pairs of      *)
(* different threads: no thread's Initialize runs while another thread is *)
(* between its Initialize and its Finalize, and once every thread has     *)
(* completed its pairs stderr is on the destination it had at the start.  *)
C29_PairsAreSerialised ==
    /\ [][\A t \in Callers : EntersPair(t) =>
             \A u \in Callers \ {t} : ppc[u] # "inited"]_vars
    /\ []((\A t \in Callers : ppc[t] = "start") => fds[STDERR_FILENO] = "tty")

(* ---- C30 ---- *)
(* SUDO_USER names a user the system does not know, or it is unset and the *)
(* invoking user has no home directory                                     *)
HomeUnresolvable == sudoUser = "unknown" \/ (sudoUser = "unset" /\ ~gateHome)

(* C30: when the home directory cannot be resolved, Initialize skips the   *)
(* rerouting: SSH_AUTH_SOCK and the backup link are as they were before    *)
(* the call, Initialize returned CKR_OK, and stderr is on /dev/null when   *)
(* Initialize was the last call.                                           *)
C30_UnresolvedHomeSkipsRerouting ==
    (HomeUnresolvable /\ lastInit.rv # "none") =>
        /\ sshAuthSock = lastInit.orig
        /\ backup = lastInit.backupBefore
        /\ lastInit.rv = "CKR_OK"
        /\ (last = "init" /\ lastInit.openBefore # FdRange) =>
               fds[STDERR_FILENO] = "/dev/null"

C30_Witness ==
    /\ sudoUser = "unknown"
    /\ gateHome
    /\ last = "init"
    /\ lastInit.rv = "CKR_OK"
    /\ lastInit.stderrBefore = "tty"
    /\ sshAuthSock # None
    /\ sshAuthSock = lastInit.orig
    /\ backup # None
    /\ backup = lastInit.backupBefore
    /\ fds[STDERR_FILENO] = "/dev/null"

(* ---- C31 ---- *)
(* the home directory Initialize resolves, when it resolves one *)
ResolvedHome == IF sudoUser = "known" THEN SudoHome ELSE Home

(* C31: whenever the home directory is resolved, after Initialize          *)
(* SSH_AUTH_SOCK is <home>/.kr/krd-agent.sock, whatever it held before and *)
(* whether or not the backup link was made.                                *)
C31_AuthSockAlwaysRerouted ==
    (~HomeUnresolvable /\ lastInit.rv # "none") =>
        sshAuthSock = Some(Push(ResolvedHome, ".kr/krd-agent.sock"))

(* SSH_AUTH_SOCK held another path and the backup link could not be made *)
C31_Witness ==
    /\ ~HomeUnresolvable
    /\ last = "init"
    /\ lastInit.orig = Some(OtherSock)
    /\ ~lastInit.linked
    /\ backup = None
    /\ sshAuthSock = Some(Push(ResolvedHome, ".kr/krd-agent.sock"))

(* ---- C32 ---- *)
(* the steps in which Initialize, Finalize or one of the other entries of *)
(* the table returns                                                      *)
InitializeStep == gateCalls' = gateCalls + 1 /\ last' = "init"
FinalizeStep == gateCalls' = gateCalls + 1 /\ last' = "fin"
OtherEntryStep == lastCall' # lastCall

(* a thread's OpenSession call that carries the serial flag increments *)
SerialOpenSessionStep ==
    \E t \in Threads : /\ tpc[t] = "called" /\ tpc'[t] = "store"
                       /\ "CKF_SERIAL_SESSION" \in tflags[t]

(* C32: one writer per component. Only OpenSession with the serial flag   *)
(* changes the session counter, only Initialize and Finalize change the   *)
(* saved-stderr slot and the descriptors, only Initialize changes         *)
(* SSH_AUTH_SOCK and the backup link, and every other entry of the table  *)
(* leaves all of them unchanged.                                          *)
C32_SingleWriter ==
    [][/\ next_session_handle' # next_session_handle => SerialOpenSessionStep
       /\ (OLD_STDERR_FD' # OLD_STDERR_FD \/ fds' # fds) =>
              (InitializeStep \/ FinalizeStep)
       /\ (sshAuthSock' # sshAuthSock \/ backup' # backup) => InitializeStep
       /\ OtherEntryStep =>
              UNCHANGED <<next_session_handle, OLD_STDERR_FD, fds, sshAuthSock,
                          backup>>]_vars

(* every kind of entry has been called: Initialize rerouted the socket and *)
(* made the backup, a serial session was opened, a stub was called         *)
C32_Witness ==
    /\ last = "init"
    /\ sshAuthSock # lastInit.orig
    /\ backup = Some(OtherSock)
    /\ fds[STDERR_FILENO] = "/dev/null"
    /\ next_session_handle = 2
    /\ lastCall.entry = "C_Sign"

(* ---- C33 ---- *)
(* the relay writes a line to standard error in this step *)
Emits == Len(stderrOut') > Len(stderrOut)

(* the flag is true and the relay holds no line that passed its check *)
FlagSeenNext == HAS_RECEIVED_STDOUT /\ rpc # "act"

(* C33: in the general variant at most one line is emitted after           *)
(* HAS_RECEIVED_STDOUT has become true. A line written while the flag is   *)
(* true is one that passed its check before the store, and it leaves the   *)
(* relay with no checked line in hand; from then on, as from any state in  *)
(* which the flag is true and no checked line is in hand, the relay never  *)
(* writes a line again.                                                    *)
C33_AtMostOneLateLine ==
    /\ [][(variant = "general" /\ Emits /\ HAS_RECEIVED_STDOUT) =>
              FlagSeenNext']_vars
    /\ [][(variant = "general" /\ FlagSeenNext) =>
              (FlagSeenNext' /\ ~Emits)]_vars

(* the flag was set between the relay's check of a line and its write: the *)
(* relay is about to write that line, and another line waits in the log    *)
C33_Witness ==
    /\ variant = "general"
    /\ HAS_RECEIVED_STDOUT
    /\ rpc = "act"
    /\ buf = LineA
    /\ emitted = <<>>
    /\ appended = <<LineA, LineB>>

(* ---- C34 ---- *)
(* C34: in the general variant, once HAS_RECEIVED_STDOUT is true and the   *)
(* relay is tailing with reads that return Ok, the relay thread eventually *)
(* terminates, whether or not another line is ever appended.               *)
C34_RelayTerminatesAfterFlag ==
    (variant = "general" /\ HAS_RECEIVED_STDOUT /\ rpc \in Tailing)
        ~> (rpc = "exited")

(* the relay left on an empty read: no line was ever appended *)
C34_Witness ==
    /\ variant = "general"
    /\ HAS_RECEIVED_STDOUT
    /\ rpc = "exited"
    /\ diags = <<>>
    /\ appendHist = <<>>
    /\ log = <<>>

(* ---- C35 ---- *)
(* the last Initialize made the backup link and it is still in place *)
BackupMadeByInitialize ==
    /\ lastInit.linked
    /\ lastInit.orig # lastInit.krd
    /\ backup = lastInit.orig

(* C35: a backup link made by Initialize survives a later Initialize: the *)
(* link still exists and points at the original socket path.              *)
C35_BackupSurvivesReinitialize ==
    [][(InitializeStep /\ BackupMadeByInitialize) => backup' = backup]_vars

(* ---- C36 ---- *)
(* C36: with a second relay instance on the same log, the first relay      *)
(* misses no line: when the lines appended after it began tailing are      *)
(* distinct and non-trivial, it has emitted every one of them once it has  *)
(* caught up with the log, wherever the second relay's open fell.          *)
C36_SecondRelayLosesNothing ==
    (/\ Distinct(appended)
     /\ \A i \in 1..Len(appended) : NonTrivial(appended[i])
     /\ CaughtUp)
    => Range(appended) \subseteq Range(emitted)

(* ---- C37 ---- *)
(* C37: the process never exits while bytes written to the intercepted     *)
(* standard output are still unforwarded: once the host has exited, no     *)
(* byte is left in the pipe or in the watcher's hands.                     *)
C37_NoExitWithUnforwardedBytes ==
    ~hostAlive => (pipe = <<>> /\ wbuf = <<>> /\ chunk = <<>>)

(* ---- C38 ---- *)
(* a Finalize was the last call, so every Initialize made so far has been  *)
(* followed by a Finalize; the last Initialize found room for its          *)
(* duplicate of stderr                                                     *)
EveryInitializeFinalized ==
    /\ last = "fin"
    /\ lastInit.rv # "none"
    /\ Cardinality(lastInit.openBefore) < FdLimit - 1

(* C38: after any sequence of Initialize and Finalize calls in which every *)
(* Initialize is followed by a Finalize, two Initialize calls in a row     *)
(* included, stderr is on its original destination once the last Finalize  *)
(* has returned.                                                           *)
C38_NeverLeftMuted ==
    EveryInitializeFinalized => fds[STDERR_FILENO] = "tty"

====
